---- MODULE Spec2Model ----
(***************************************************************************)
(* Poll bot: the poll store (models.py), the vote / close / creation       *)
(* handlers (app.py, poll_service.py) and the deadline sweeper thread      *)
(* (app.py check_expired_polls).                                           *)
(*                                                                         *)
(* Request handlers and the sweeper are threads sharing one database.      *)
(* Every commit of the ORM session is one atomic step; the steps of        *)
(* different threads interleave freely (the code takes no lock).           *)
(***************************************************************************)
EXTENDS Integers, Sequences, FiniteSets, TLC

(* ------------------------------ bounds --------------------------------- *)
MaxPolls == 2
MaxCreated == 1
ResultOptions == 3
MaxOptions == 2
MaxTime == 2
MaxVotes == 2
NumThreads == 2
MaxSweeps == 2

PollIds == 1..MaxPolls
Threads == 1..NumThreads
Users == {"u1", "u2"}
Times == 0..MaxTime
OptionIds == PollIds \X (1..MaxOptions)
Entries == {"bolt", "events", "service"}
SettingsInputs == {{}, {"multiple_votes"}}
AllSettingsInputs == SUBSET {"multiple_votes", "hide_votes", "hide_vote_count"}
DeadlineInputs == {0, 1}
CreatorInputs == {"u1"}
NotifyInputs == {"ok", "SlackApiError", "Exception"}

NoDeadline == 0
NoPoll == [exists |-> FALSE]

VARIABLES polls, votes, now, nextId, nextVote, th, sw, result, message

vars == <<polls, votes, now, nextId, nextVote, th, sw, result, message>>

(* ------------------------------ store ---------------------------------- *)

\* models.py Poll.__init__: the mapped columns of a new Poll object.
\* options is the number of PollOption rows; option i of poll p has id <<p, i>>.
Poll(creator_id, allow_multiple_votes, hide_votes, hide_vote_count, deadline) ==
    [exists |-> TRUE,
     creator_id |-> creator_id,
     allow_multiple_votes |-> allow_multiple_votes,
     hide_votes |-> hide_votes,
     hide_vote_count |-> hide_vote_count,
     deadline |-> deadline,
     closed |-> FALSE,
     message_ts |-> FALSE,
     options |-> 0]

\* models.py get_poll_by_id: the row, or None.
get_poll_by_id(poll_id) == polls[poll_id]

\* poll.options of a loaded poll: the ids of its PollOption rows.
PollOptions(poll_id) == {<<poll_id, i>> : i \in 1..polls[poll_id].options}

\* models.py class Poll declares the columns and the `options` relationship
\* only.  It has no `votes` attribute, so evaluating `poll.votes` raises
\* AttributeError in every caller.
PollVotes(poll_id) ==
    [raised |-> TRUE, value |-> {}]

\* models.py delete_vote(vote_id) takes ONE positional argument.  A call with
\* nargs arguments other than one raises TypeError before the body runs.
delete_vote(vs, nargs, vote_id) ==
    IF nargs # 1
    THEN [raised |-> TRUE, votes |-> vs]
    ELSE [raised |-> FALSE, votes |-> {v \in vs : v.id # vote_id}]

\* models.py save_vote(poll, vote_data) subscripts vote_data["user_id"]; when
\* it is handed a Vote object instead of a dict the subscript raises TypeError.
save_vote(vs, is_dict, id, user_id, option_id) ==
    IF ~is_dict
    THEN [raised |-> TRUE, votes |-> vs]
    ELSE [raised |-> FALSE,
          votes |-> vs \cup {[id |-> id, user_id |-> user_id, option_id |-> option_id]}]

\* Variant of save_poll that writes the whole in-memory object over the row.
save_poll_whole(poll_id, obj, dirty) ==
    [polls EXCEPT ![poll_id] = obj]

\* models.py save_poll: session.add + commit.  The unit of work INSERTs a new
\* object with all its columns and UPDATEs only the attributes that were
\* assigned since the object was loaded (dirty), never the whole row.
save_poll(poll_id, obj, dirty) ==
    IF ~polls[poll_id].exists
    THEN [polls EXCEPT ![poll_id] = obj]
    ELSE [polls EXCEPT ![poll_id] =
            [f \in DOMAIN polls[poll_id] |->
                IF f \in dirty THEN obj[f] ELSE polls[poll_id][f]]]

\* Variant of the comparison that takes a deadline equal to now as passed.
DeadlineReached(deadline, time) == deadline <= time

\* models.py:87: `cls.deadline < now`.
DeadlinePassed(deadline, time) == deadline < time

\* Variant of the query without the test that leaves NULL deadlines out.
get_open_polls_before_now ==
    {p \in PollIds : /\ polls[p].exists
                     /\ polls[p].deadline < now
                     /\ ~polls[p].closed}

\* Variant of the query without the test on closed.
get_polls_past_deadline ==
    {p \in PollIds : /\ polls[p].exists
                     /\ polls[p].deadline # NoDeadline
                     /\ DeadlinePassed(polls[p].deadline, now)}

\* models.py Poll.get_expired_polls: deadline < now AND closed == False.  A
\* NULL deadline never satisfies the SQL comparison.
get_expired_polls ==
    {p \in PollIds : /\ polls[p].exists
                     /\ polls[p].deadline # NoDeadline
                     /\ DeadlinePassed(polls[p].deadline, now)
                     /\ ~polls[p].closed}

RECURSIVE SetToSeq(_)
SetToSeq(S) ==
    IF S = {} THEN <<>>
    ELSE LET m == CHOOSE x \in S : \A y \in S : x <= y
         IN <<m>> \o SetToSeq(S \ {m})

(* ------------------------------ threads -------------------------------- *)

\* A handler thread: its position and the locals it still needs.
Idle == [pc |-> "idle", entry |-> "none", poll |-> 0, user |-> "none",
         option |-> <<0, 0>>, obj |-> NoPoll, todo |-> 0, settings |-> {}]

\* The sweeper thread between two ticks.  During a tick, snapshot holds the
\* polls still to process and taken the polls the query returned.
\* done are the polls the tick has closed, notified the polls for which it
\* entered the chat_update branch, and failures those whose chat_update raised.
SweeperAsleep == [pc |-> "sleep", snapshot |-> <<>>, taken |-> {},
                  done |-> {}, notified |-> {}, failures |-> {}]

\* The message of a poll in the channel.  shown is the last rendering sent
\* for it: "none" while no announcement was posted, else whether the blocks
\* show the poll as open (vote and close buttons) or as closed.  failed
\* records that a post or an update for the poll was attempted and failed,
\* sweeps how many times the sweeper attempted an update of the message.
NoMessage == [shown |-> "none", failed |-> FALSE, sweeps |-> 0]

\* app.py:106, 152-196: generate_poll_blocks shows the closed notice and the
\* Show Results button for a closed poll, the vote and close buttons otherwise.
Rendering(poll) == IF poll.closed THEN "closed" ELSE "open"

\* The message of a poll that is already in the store at the start: a poll
\* with message_ts was announced when it was created.
InitialMessage(poll) ==
    IF poll.exists /\ poll.message_ts
    THEN [NoMessage EXCEPT !.shown = Rendering(poll)]
    ELSE NoMessage

\* What the last finished request was and how it ended.
\* view is the list a results request returned, user the requester of a
\* results request.
NoResult == [op |-> "none", poll |-> 0, user |-> "none", outcome |-> "none", view |-> <<>>]

Init ==
    /\ polls = [p \in PollIds |-> NoPoll]
    /\ votes = {}
    /\ now = 0
    /\ nextId = 1
    /\ nextVote = 1
    /\ th = [t \in Threads |-> Idle]
    /\ sw = SweeperAsleep
    /\ message = [p \in PollIds |-> InitialMessage(polls[p])]
    /\ result = NoResult

Finish(t, op, poll_id, outcome) ==
    /\ th' = [th EXCEPT ![t] = Idle]
    /\ result' = [op |-> op, poll |-> poll_id, user |-> "none", outcome |-> outcome,
                  view |-> <<>>]

(* ------------------------------ creation ------------------------------- *)

\* The lines of the options text box: up to MaxOptions lines, blank or not.
LineInputs == UNION {[1..n -> {"A", " "}] : n \in 0..MaxOptions}

\* str.strip() of an input line: "" for a blank line.
Strip(line) == IF line = " " THEN "" ELSE line

\* app.py:411 / 682-684: [opt.strip() for opt in lines if opt.strip()]
OptionTexts(lines) == SelectSeq([i \in DOMAIN lines |-> Strip(lines[i])], LAMBDA x : x # "")

\* Variant of the normalisation that keeps hide_vote_count as submitted.
NormalizeNothing(hide_votes, hide_vote_count) == hide_vote_count

\* app.py:406-408 / 677-679: vote counts cannot be hidden while votes are shown.
NormalizeHideVoteCount(hide_votes, hide_vote_count) ==
    IF hide_votes = FALSE /\ hide_vote_count = TRUE THEN FALSE ELSE hide_vote_count

\* The Poll object built by a creation entry point.  PollService.create_poll
\* passes no hide_vote_count (models.py:44 defaults it to False) and adds the
\* option texts as given; the two modal handlers normalise and filter.
NewPoll(entry, creator, settings, deadline) ==
    LET multi == "multiple_votes" \in settings
        hv == "hide_votes" \in settings
        hvc == "hide_vote_count" \in settings
    IN IF entry = "service"
       THEN Poll(creator, multi, hv, FALSE, deadline)
       ELSE Poll(creator, multi, hv, NormalizeHideVoteCount(hv, hvc), deadline)

NewOptionCount(entry, lines) ==
    IF entry = "service" THEN Len(lines) ELSE Len(OptionTexts(lines))

\* Poll(...) is constructed (uuid assigned); nothing is stored yet.
CreateStart(t, entry, creator, settings, deadline, lines) ==
    /\ th[t].pc = "idle"
    /\ nextId <= MaxCreated
    /\ th' = [th EXCEPT ![t] =
                [Idle EXCEPT !.pc = "create_options", !.entry = entry, !.poll = nextId,
                             !.settings = settings,
                             !.obj = NewPoll(entry, creator, settings, deadline),
                             !.todo = NewOptionCount(entry, lines)]]
    /\ nextId' = nextId + 1
    /\ UNCHANGED <<polls, votes, now, nextVote, sw, result, message>>

\* models.py Poll.add_option: PollOption(text, poll=self); session.add;
\* commit.  The commit cascades to the poll, so the first call INSERTs the
\* poll row together with the option row.
CreateAddOption(t) ==
    /\ th[t].pc = "create_options"
    /\ th[t].todo > 0
    /\ LET p == th[t].poll
           row == IF polls[p].exists THEN polls[p] ELSE th[t].obj
       IN polls' = [polls EXCEPT ![p] = [row EXCEPT !.options = @ + 1]]
    /\ th' = [th EXCEPT ![t].todo = @ - 1]
    /\ UNCHANGED <<votes, now, nextId, nextVote, sw, result, message>>

\* save_poll(poll) after the options loop (app.py:429, 702; poll_service.py:48).
CreateSave(t) ==
    /\ th[t].pc = "create_options"
    /\ th[t].todo = 0
    /\ polls' = save_poll(th[t].poll, th[t].obj, {})
    /\ IF th[t].entry = "service"
       THEN Finish(t, "create", th[t].poll, "Created")
       ELSE /\ th' = [th EXCEPT ![t].pc = "create_post"]
            /\ UNCHANGED result
    /\ UNCHANGED <<votes, now, nextId, nextVote, sw, message>>

\* app.py generate_poll_blocks: the loop over poll.options evaluates
\* poll.votes (line 127) for the first option, which raises; a poll without
\* options renders.
GeneratePollBlocksRaises(poll_id) ==
    polls[poll_id].options > 0 /\ PollVotes(poll_id).raised

\* app.py:431-436 / 705-710: post the announcement.  The blocks are built
\* from the poll object, whose attributes were expired by the commit of
\* save_poll and are loaded again when generate_poll_blocks reads them.
\* posted is the platform's answer.
CreatePost(t, posted) ==
    /\ th[t].pc = "create_post"
    /\ LET p == th[t].poll
       IN IF GeneratePollBlocksRaises(p)
          THEN /\ Finish(t, "create", p, "AttributeError")
               /\ UNCHANGED message
          ELSE IF posted
          THEN /\ message' = [message EXCEPT ![p].shown = Rendering(polls[p])]
               /\ th' = [th EXCEPT ![t].pc = "create_ts"]
               /\ UNCHANGED result
          ELSE /\ Finish(t, "create", p, "PostFailed")
               /\ message' = [message EXCEPT ![p].failed = TRUE]
    /\ UNCHANGED <<polls, votes, now, nextId, nextVote, sw>>

\* app.py:441-443 / 713-715: once chat_postMessage has answered, store the
\* message timestamp with a second save_poll.
CreateStoreTs(t) ==
    /\ th[t].pc = "create_ts"
    /\ polls' = save_poll(th[t].poll, [th[t].obj EXCEPT !.message_ts = TRUE], {"message_ts"})
    /\ Finish(t, "create", th[t].poll, "Created")
    /\ UNCHANGED <<votes, now, nextId, nextVote, sw, message>>

(* ------------------------------ voting --------------------------------- *)

\* delete_vote(poll, vote) for each vote of targets, in turn; the first call
\* that raises ends the loop.
RECURSIVE DeleteEach(_, _)
DeleteEach(vs, targets) ==
    IF targets = {} THEN [raised |-> FALSE, votes |-> vs]
    ELSE LET v == CHOOSE x \in targets : TRUE
             r == delete_vote(vs, 2, v.id)
         IN IF r.raised THEN r ELSE DeleteEach(r.votes, targets \ {v})

\* Variant of the vote decision that inserts without looking at the votes held.
VoteDecisionInsertOnly(vs, poll_id, multi, user_id, option_id, id) ==
    [votes |-> vs \cup {[id |-> id, user_id |-> user_id, option_id |-> option_id]},
     outcome |-> "VoteAdded"]

\* Variant of the vote decision that first drops every vote of the poll.
VoteDecisionClearsPoll(vs, poll_id, multi, user_id, option_id, id) ==
    [votes |-> {v \in vs : v.option_id[1] # poll_id}
                 \cup {[id |-> id, user_id |-> user_id, option_id |-> option_id]},
     outcome |-> "VoteAdded"]

\* The vote decision of handle_vote (app.py:479-513), applied to the vote
\* table vs.  An exception ends the handler where it is raised; what was
\* committed before it stays.  VoteDecide applies this operator for every
\* entry point; add_vote and vote_button below are the decisions of the other
\* two entry points, translated from their own code.
VoteDecision(vs, poll_id, multi, user_id, option_id, id) ==
    LET pv == PollVotes(poll_id)
    IN IF pv.raised THEN [votes |-> vs, outcome |-> "AttributeError"]
       ELSE
       LET user_votes == {v \in pv.value : v.user_id = user_id}
           same == {v \in user_votes : v.option_id = option_id}
       IN IF ~multi /\ user_votes # {}
          THEN IF same # {}
               THEN LET d == DeleteEach(vs, same)
                    IN IF d.raised THEN [votes |-> d.votes, outcome |-> "TypeError"]
                       ELSE [votes |-> d.votes, outcome |-> "VoteRemoved"]
               ELSE LET d == DeleteEach(vs, user_votes)
                        s == save_vote(d.votes, FALSE, id, user_id, option_id)
                    IN IF d.raised THEN [votes |-> d.votes, outcome |-> "TypeError"]
                       ELSE IF s.raised THEN [votes |-> s.votes, outcome |-> "TypeError"]
                       ELSE [votes |-> s.votes, outcome |-> "VoteAdded"]
          ELSE IF same # {}
               THEN LET d == DeleteEach(vs, {CHOOSE v \in same : TRUE})
                    IN IF d.raised THEN [votes |-> d.votes, outcome |-> "TypeError"]
                       ELSE [votes |-> d.votes, outcome |-> "VoteRemoved"]
               ELSE LET s == save_vote(vs, FALSE, id, user_id, option_id)
                    IN IF s.raised THEN [votes |-> s.votes, outcome |-> "TypeError"]
                       ELSE [votes |-> s.votes, outcome |-> "VoteAdded"]

\* The vote decision of PollService.add_vote (poll_service.py:77-106).  The
\* branches that remove a vote return; the others fall through to the insert
\* at the end.
add_vote(vs, poll_id, multi, user_id, option_id, id) ==
    LET pv == PollVotes(poll_id)
    IN IF pv.raised THEN [votes |-> vs, outcome |-> "AttributeError"]
       ELSE
       LET user_votes == {v \in pv.value : v.user_id = user_id}
           same == {v \in user_votes : v.option_id = option_id}
           removed == IF ~multi /\ user_votes # {}
                      THEN IF same # {} THEN DeleteEach(vs, same)
                           ELSE DeleteEach(vs, user_votes)
                      ELSE IF same # {} THEN DeleteEach(vs, {CHOOSE v \in same : TRUE})
                           ELSE [raised |-> FALSE, votes |-> vs]
           s == save_vote(removed.votes, FALSE, id, user_id, option_id)
       IN IF removed.raised THEN [votes |-> removed.votes, outcome |-> "TypeError"]
          ELSE IF same # {} THEN [votes |-> removed.votes, outcome |-> "VoteRemoved"]
          ELSE IF s.raised THEN [votes |-> s.votes, outcome |-> "TypeError"]
          ELSE [votes |-> s.votes, outcome |-> "VoteAdded"]

\* The vote decision of the vote_button branch of slack_events
\* (app.py:764-809): the same branches as handle_vote, inside a try whose
\* except logs every exception.
vote_button(vs, poll_id, multi, user_id, option_id, id) ==
    LET pv == PollVotes(poll_id)
    IN IF pv.raised THEN [votes |-> vs, outcome |-> "AttributeError"]
       ELSE
       LET user_votes == {v \in pv.value : v.user_id = user_id}
           same == {v \in user_votes : v.option_id = option_id}
           existing_vote == {v \in user_votes : v.option_id = option_id}
       IN IF ~multi /\ user_votes # {}
          THEN IF same # {}
               THEN LET d == DeleteEach(vs, same)
                    IN IF d.raised THEN [votes |-> d.votes, outcome |-> "TypeError"]
                       ELSE [votes |-> d.votes, outcome |-> "VoteRemoved"]
               ELSE LET d == DeleteEach(vs, user_votes)
                        s == save_vote(d.votes, FALSE, id, user_id, option_id)
                    IN IF d.raised THEN [votes |-> d.votes, outcome |-> "TypeError"]
                       ELSE IF s.raised THEN [votes |-> s.votes, outcome |-> "TypeError"]
                       ELSE [votes |-> s.votes, outcome |-> "VoteAdded"]
          ELSE IF existing_vote # {}
               THEN LET d == DeleteEach(vs, {CHOOSE v \in existing_vote : TRUE})
                    IN IF d.raised THEN [votes |-> d.votes, outcome |-> "TypeError"]
                       ELSE [votes |-> d.votes, outcome |-> "VoteRemoved"]
               ELSE LET s == save_vote(vs, FALSE, id, user_id, option_id)
                    IN IF s.raised THEN [votes |-> s.votes, outcome |-> "TypeError"]
                       ELSE [votes |-> s.votes, outcome |-> "VoteAdded"]

\* Variant of the closed check that lets every request through.
VoteIgnoresClosed(poll) == FALSE

\* The closed check of the vote handlers (app.py:468, 751; poll_service.py:70).
VoteSeesClosed(poll) == poll.closed

\* The option check: only PollService.add_vote has one (poll_service.py:73-75).
VoteChecksOption(entry) == entry = "service"

\* Variant in which a missing poll is dereferenced.
MissingPollRaises(op) == "AttributeError"

\* The outcome of a request whose poll is not in the store: the handlers log
\* and return (app.py:462-464, 537-539, 580-582), PollService returns
\* (False, "Poll not found") or None (poll_service.py:66-68, 120-122, 145-147).
MissingPollOutcome(op) == "NotFound"

\* First part of a vote request: load the poll and run the early returns.
VoteBegin(t, entry, p, u, o) ==
    /\ th[t].pc = "idle"
    /\ LET poll == get_poll_by_id(p)
       IN IF ~poll.exists THEN Finish(t, "vote", p, MissingPollOutcome("vote"))
          ELSE IF VoteSeesClosed(poll) THEN Finish(t, "vote", p, "PollClosed")
          ELSE IF VoteChecksOption(entry) /\ o \notin PollOptions(p)
          THEN Finish(t, "vote", p, "OptionNotFound")
          ELSE /\ th' = [th EXCEPT ![t] =
                          [Idle EXCEPT !.pc = "vote_decide", !.poll = p,
                                       !.user = u, !.option = o]]
               /\ UNCHANGED result
    /\ UNCHANGED <<polls, votes, now, nextId, nextVote, sw, message>>

\* Second part: read the voter's votes, decide, delete / insert.
\* allow_multiple_votes is never assigned after construction, so the value on
\* the loaded object is the stored one.
VoteDecide(t) ==
    /\ th[t].pc = "vote_decide"
    /\ LET d == VoteDecision(votes, th[t].poll, polls[th[t].poll].allow_multiple_votes,
                             th[t].user, th[t].option, nextVote)
       IN /\ d.votes \subseteq votes \/ nextVote <= MaxVotes
          /\ votes' = d.votes
          /\ nextVote' = IF \E v \in d.votes : v.id = nextVote THEN nextVote + 1 ELSE nextVote
          /\ Finish(t, "vote", th[t].poll, d.outcome)
    /\ UNCHANGED <<polls, now, nextId, sw, message>>

(* ------------------------------ closing -------------------------------- *)

\* Only PollService.close_poll refuses an already closed poll
\* (poll_service.py:124-125); the two handlers go straight to the creator check.
CloseChecksClosed(entry) == entry = "service"

\* Variant of the creator check that lets every requester through.
CloseForbiddenNever(poll, u) == FALSE

\* The creator check (app.py:543, 837; poll_service.py:127).
CloseForbidden(poll, u) == poll.creator_id # u

CloseBegin(t, entry, p, u) ==
    /\ th[t].pc = "idle"
    /\ LET poll == get_poll_by_id(p)
       IN IF ~poll.exists THEN Finish(t, "close", p, MissingPollOutcome("close"))
          ELSE IF CloseChecksClosed(entry) /\ poll.closed
          THEN Finish(t, "close", p, "AlreadyClosed")
          ELSE IF CloseForbidden(poll, u) THEN Finish(t, "close", p, "Forbidden")
          ELSE /\ th' = [th EXCEPT ![t] =
                          [Idle EXCEPT !.pc = "close_write", !.entry = entry,
                                       !.poll = p, !.user = u]]
               /\ UNCHANGED result
    /\ UNCHANGED <<polls, votes, now, nextId, nextVote, sw, message>>

\* The value the close paths assign to poll.closed (app.py:66, 555, 851;
\* poll_service.py:130).
ClosedValue(closed) == TRUE

\* Variant of the code after a failed notification that restores the poll.
RollbackOnNotifyFailure(before, saved, failed) == IF failed THEN before ELSE saved

\* The store after a notification step: no path rolls the saved poll back
\* when the notification fails (app.py:81-84, 565-566, 861-864 only log).
AfterNotify(before, saved, failed) == saved

\* How a close request ends after save_poll.  PollService.close_poll returns
\* at once (poll_service.py:132).  The handlers re-render the message:
\* generate_poll_blocks raises AttributeError for a poll with options, else
\* chat_update answers with notify.  handle_close_poll catches SlackApiError
\* only (app.py:565), slack_events catches every Exception (app.py:861).
CloseOutcome(entry, poll_id, notify) ==
    IF entry = "service" THEN "Closed"
    ELSE IF GeneratePollBlocksRaises(poll_id)
    THEN (IF entry = "bolt" THEN "AttributeError" ELSE "NotifyFailed")
    ELSE IF notify = "ok" THEN "Closed"
    ELSE IF notify = "SlackApiError" \/ entry = "events" THEN "NotifyFailed"
    ELSE "Exception"

\* poll.closed = True; save_poll(poll); then the re-render of the message.
CloseWrite(t, notify) ==
    /\ th[t].pc = "close_write"
    /\ LET p == th[t].poll
           obj == [polls[p] EXCEPT !.closed = ClosedValue(polls[p].closed)]
           outcome == CloseOutcome(th[t].entry, p, notify)
       IN /\ polls' = AfterNotify(polls, save_poll(p, obj, {"closed"}), outcome # "Closed")
          /\ message' = [message EXCEPT ![p] =
                           IF th[t].entry = "service" THEN @
                           ELSE IF outcome # "Closed" THEN [@ EXCEPT !.failed = TRUE]
                           ELSE IF @.shown = "none" THEN @
                           ELSE [@ EXCEPT !.shown = Rendering(obj)]]
          /\ Finish(t, "close", p, outcome)
    /\ UNCHANGED <<votes, now, nextId, nextVote, sw>>

(* ------------------------------- results ------------------------------- *)

\* models.py Poll.get_votes_for_option: the Vote rows of one option of the
\* poll, by a query on the vote table.
get_votes_for_option(poll_id, option_id) ==
    {v \in votes : v.option_id = option_id /\ option_id[1] = poll_id}

\* Variant that attaches the voters whatever the poll's hide_votes.
VotersShownAlways(poll) == TRUE

\* poll_service.py:168: voters are attached `if not poll.hide_votes`.
VotersShown(poll) == ~poll.hide_votes

\* poll_service.py:159-171: the entry of option i.  "count" is set for every
\* poll (has_count); "voters" only when VotersShown.
OptionResult(poll_id, i) ==
    LET vs == get_votes_for_option(poll_id, <<poll_id, i>>)
    IN [id |-> i,
        has_count |-> TRUE,
        count |-> Cardinality(vs),
        has_voters |-> VotersShown(polls[poll_id]),
        voters |-> IF VotersShown(polls[poll_id]) THEN {v.user_id : v \in vs} ELSE {}]

\* Variant of the ordering in which an entry moves in front of its ties.
StaysBeforeStrict(x, y) == x.count > y.count

\* list.sort(key=count, reverse=True) is stable: an entry x that precedes y
\* in the list stays in front of y unless y's count is larger.
StaysBefore(x, y) == x.count >= y.count

RECURSIVE InsertDesc(_, _)
InsertDesc(sorted, y) ==
    IF sorted = <<>> THEN <<y>>
    ELSE IF StaysBefore(Head(sorted), y)
         THEN <<Head(sorted)>> \o InsertDesc(Tail(sorted), y)
         ELSE <<y>> \o sorted

\* poll_service.py:176 (and sorted(..., reverse=True) at app.py:220-224).
RECURSIVE SortByCountDesc(_, _)
SortByCountDesc(sorted, rest) ==
    IF rest = <<>> THEN sorted
    ELSE SortByCountDesc(InsertDesc(sorted, Head(rest)), Tail(rest))

\* poll_service.py:158-178: one entry per option in poll.options order, then
\* the sort.
get_poll_results(poll_id) ==
    SortByCountDesc(<<>>, [i \in 1..polls[poll_id].options |-> OptionResult(poll_id, i)])

\* app.py:216: generate_results_blocks iterates poll.votes before anything
\* else, for every poll.
GenerateResultsBlocksRaises(poll_id) == PollVotes(poll_id).raised

\* The creator check of a results request: handle_show_results has one
\* (app.py:584-594); the show_results branch of slack_events goes from the
\* poll lookup straight to chat_postMessage (app.py:872-887).
ResultsChecksCreator(entry) == entry = "bolt"

\* A results request: PollService.get_poll_results (poll_service.py:134-178),
\* handle_show_results (app.py:570-605) or the show_results branch of
\* slack_events (app.py:866-893).  The request reads only.
ShowResults(t, entry, p, u) ==
    /\ th[t].pc = "idle"
    /\ LET poll == get_poll_by_id(p)
           outcome == IF ~poll.exists THEN MissingPollOutcome("results")
                      ELSE IF entry = "service" THEN "Results"
                      ELSE IF ResultsChecksCreator(entry) /\ poll.creator_id # u
                      THEN "Forbidden"
                      ELSE IF GenerateResultsBlocksRaises(p) THEN "AttributeError"
                      ELSE "Posted"
       IN result' = [op |-> "results", poll |-> p, user |-> u, outcome |-> outcome,
                     view |-> IF outcome = "Results" THEN get_poll_results(p) ELSE <<>>]
    /\ th' = [th EXCEPT ![t] = Idle]
    /\ UNCHANGED <<polls, votes, now, nextId, nextVote, sw, message>>

(* ------------------------------ sweeper -------------------------------- *)

\* app.py:62: the snapshot of expired open polls taken at the start of a tick.
SweepQuery ==
    /\ sw.pc = "sleep"
    /\ sw' = [SweeperAsleep EXCEPT !.pc = "loop",
                                   !.snapshot = SetToSeq(get_expired_polls),
                                   !.taken = get_expired_polls]
    /\ UNCHANGED <<polls, votes, now, nextId, nextVote, th, result, message>>

\* Variant of the test that never enters the chat_update branch.
NotifyAttemptedNever(poll) == FALSE

\* app.py:70: `if poll.channel_id and poll.message_ts` (channel_id is stored
\* at creation together with the poll; message_ts only after the post).
NotifyAttempted(poll) == poll.message_ts

\* app.py:69-82: the notification of a closed poll.  Without message_ts the
\* code only logs (else branch); otherwise chat_update answers with notify.
\* SlackApiError is caught inside the loop (app.py:81); any other exception
\* leaves the for loop and is caught by the handler around it (app.py:83).
NotifyAborts(poll, notify) ==
    NotifyAttempted(poll) /\ notify = "Exception"

\* app.py:64-82: close the next poll of the snapshot, then notify.
SweepClose(notify) ==
    /\ sw.pc = "loop"
    /\ sw.snapshot # <<>>
    /\ LET p == Head(sw.snapshot)
           obj == [polls[p] EXCEPT !.closed = ClosedValue(polls[p].closed)]
           attempted == NotifyAttempted(polls[p])
           failed == attempted /\ notify # "ok"
       IN /\ polls' = AfterNotify(polls, save_poll(p, obj, {"closed"}), failed)
          /\ sw' = [sw EXCEPT
                      !.snapshot = IF NotifyAborts(polls[p], notify) THEN <<>> ELSE Tail(@),
                      !.done = @ \cup {p},
                      !.notified = IF attempted THEN @ \cup {p} ELSE @,
                      !.failures = IF failed THEN @ \cup {p} ELSE @]
          /\ message' = [message EXCEPT ![p] =
                           IF ~attempted THEN @
                           ELSE [@ EXCEPT !.sweeps = IF @ < MaxSweeps THEN @ + 1 ELSE @,
                                          !.failed = IF failed THEN TRUE ELSE @,
                                          !.shown = IF failed THEN @ ELSE Rendering(obj)]]
    /\ UNCHANGED <<votes, now, nextId, nextVote, th, result>>

\* app.py:87: time.sleep(60) once the loop is left.
SweepSleep ==
    /\ sw.pc = "loop"
    /\ sw.snapshot = <<>>
    /\ sw' = SweeperAsleep
    /\ UNCHANGED <<polls, votes, now, nextId, nextVote, th, result, message>>

\* The wall clock read by datetime.now().
Tick ==
    /\ now < MaxTime
    /\ now' = now + 1
    /\ UNCHANGED <<polls, votes, nextId, nextVote, th, sw, result, message>>

Next ==
    \/ \E t \in Threads, e \in Entries, c \in CreatorInputs, s \in SettingsInputs,
          d \in DeadlineInputs, l \in LineInputs : CreateStart(t, e, c, s, d, l)
    \/ \E t \in Threads : CreateAddOption(t)
    \/ \E t \in Threads : CreateSave(t)
    \/ \E t \in Threads, posted \in BOOLEAN : CreatePost(t, posted)
    \/ \E t \in Threads : CreateStoreTs(t)
    \/ \E t \in Threads, e \in Entries, p \in PollIds, u \in Users, o \in OptionIds :
          VoteBegin(t, e, p, u, o)
    \/ \E t \in Threads : VoteDecide(t)
    \/ \E t \in Threads, e \in Entries, p \in PollIds, u \in Users : CloseBegin(t, e, p, u)
    \/ \E t \in Threads, n \in NotifyInputs : CloseWrite(t, n)
    \/ SweepQuery
    \/ \E n \in NotifyInputs : SweepClose(n)
    \/ SweepSleep
    \/ Tick

Spec == Init /\ [][Next]_vars

\* The entry points the deployed application routes requests to: the bolt
\* handlers and the /slack/events route (app.py:609-899).  PollService is a
\* library that no route calls.
HandlerEntries == {"bolt", "events"}

NextHandlers ==
    \/ \E t \in Threads, e \in HandlerEntries, c \in CreatorInputs, s \in SettingsInputs,
          d \in DeadlineInputs, l \in LineInputs : CreateStart(t, e, c, s, d, l)
    \/ \E t \in Threads : CreateAddOption(t)
    \/ \E t \in Threads : CreateSave(t)
    \/ \E t \in Threads, posted \in BOOLEAN : CreatePost(t, posted)
    \/ \E t \in Threads : CreateStoreTs(t)
    \/ \E t \in Threads, e \in HandlerEntries, p \in PollIds, u \in Users, o \in OptionIds :
          VoteBegin(t, e, p, u, o)
    \/ \E t \in Threads : VoteDecide(t)
    \/ \E t \in Threads, e \in HandlerEntries, p \in PollIds, u \in Users :
          CloseBegin(t, e, p, u)
    \/ \E t \in Threads, n \in NotifyInputs : CloseWrite(t, n)
    \/ SweepQuery
    \/ \E n \in NotifyInputs : SweepClose(n)
    \/ SweepSleep
    \/ Tick

SpecHandlers == Init /\ [][NextHandlers]_vars

(* ------------------- the sweeper over several polls -------------------- *)

\* A poll as the creation handlers leave it: message_ts is stored only when
\* the announcement was rendered, which happens for a poll without options.
StoredPoll(deadline, posted, options) ==
    [Poll("u1", FALSE, FALSE, FALSE, deadline) EXCEPT
        !.options = IF posted THEN 0 ELSE options,
        !.message_ts = posted]

\* A store that holds MaxPolls open polls.
InitSweep ==
    /\ \E d \in [PollIds -> DeadlineInputs], m \in [PollIds -> BOOLEAN] :
          polls = [p \in PollIds |-> StoredPoll(d[p], m[p], MaxOptions)]
    /\ votes = {}
    /\ now = 0
    /\ nextId = MaxPolls + 1
    /\ nextVote = 1
    /\ th = [t \in Threads |-> Idle]
    /\ sw = SweeperAsleep
    /\ message = [p \in PollIds |-> InitialMessage(polls[p])]
    /\ result = NoResult

NextSweep ==
    \/ \E t \in Threads, e \in Entries, p \in PollIds, u \in Users : CloseBegin(t, e, p, u)
    \/ \E t \in Threads, n \in NotifyInputs : CloseWrite(t, n)
    \/ SweepQuery
    \/ \E n \in NotifyInputs : SweepClose(n)
    \/ SweepSleep
    \/ Tick

SpecSweep == InitSweep /\ [][NextSweep]_vars

\* The sweeper is a thread of its own that loops for ever (app.py:57, 87-91):
\* each of its steps is taken once it is possible.
SpecSweepFair ==
    /\ SpecSweep
    /\ WF_vars(SweepQuery)
    /\ WF_vars(\E n \in NotifyInputs : SweepClose(n))
    /\ WF_vars(SweepSleep)

(* ------------------ the sweeper with a failing store ------------------- *)

\* Variant in which the exception of a failed tick ends the thread.
FailedTickTerminates == "dead"

\* app.py:83-84: `except Exception` around the whole tick logs the error; the
\* thread goes on to time.sleep(60) at app.py:87.
FailedTickPc == "failed"

\* app.py:60: get_expired_polls() raises because the store is unavailable.
SweepQueryFails ==
    /\ sw.pc = "sleep"
    /\ sw' = [sw EXCEPT !.pc = FailedTickPc]
    /\ UNCHANGED <<polls, votes, now, nextId, nextVote, th, result, message>>

\* app.py:65: save_poll(poll) raises at commit; the row stays as it was and
\* the rest of the snapshot is left.
SweepSaveFails ==
    /\ sw.pc = "loop"
    /\ sw.snapshot # <<>>
    /\ sw' = [sw EXCEPT !.pc = FailedTickPc, !.snapshot = <<>>]
    /\ UNCHANGED <<polls, votes, now, nextId, nextVote, th, result, message>>

\* app.py:87: time.sleep(60) after the failed tick was logged.
SweepSleepAfterFailure ==
    /\ sw.pc = "failed"
    /\ sw' = SweeperAsleep
    /\ UNCHANGED <<polls, votes, now, nextId, nextVote, th, result, message>>

NextSweepFaulty ==
    \/ SweepQuery
    \/ SweepQueryFails
    \/ \E n \in NotifyInputs : SweepClose(n)
    \/ SweepSaveFails
    \/ SweepSleep
    \/ SweepSleepAfterFailure
    \/ Tick

\* The sweeper thread runs for ever, so its sleeps end (weak fairness); the
\* store is not unavailable for ever, so a query and a save that are tried
\* again and again eventually succeed (strong fairness).
SpecSweepFaulty ==
    /\ InitSweep
    /\ [][NextSweepFaulty]_vars
    /\ WF_vars(SweepSleep)
    /\ WF_vars(SweepSleepAfterFailure)
    /\ SF_vars(SweepQuery)
    /\ SF_vars(\E n \in NotifyInputs : SweepClose(n))

(* ---------------- creation with every settings checkbox ---------------- *)

\* Poll(creator_id, ..., hide_votes=hv, hide_vote_count=hvc) called directly:
\* the object the constructor returns, held by the caller and not stored.
ConstructPoll(t, creator, multi, hv, hvc, deadline) ==
    /\ th[t].pc = "idle"
    /\ th' = [th EXCEPT ![t] =
                [Idle EXCEPT !.pc = "constructed",
                             !.obj = Poll(creator, multi, hv, hvc, deadline)]]
    /\ UNCHANGED <<polls, votes, now, nextId, nextVote, sw, result, message>>

\* The caller lets go of the object.
DropPoll(t) ==
    /\ th[t].pc = "constructed"
    /\ th' = [th EXCEPT ![t] = Idle]
    /\ UNCHANGED <<polls, votes, now, nextId, nextVote, sw, result, message>>

NextCreate ==
    \/ \E t \in Threads, e \in Entries, c \in CreatorInputs, s \in AllSettingsInputs,
          d \in DeadlineInputs, l \in LineInputs : CreateStart(t, e, c, s, d, l)
    \/ \E t \in Threads : CreateAddOption(t)
    \/ \E t \in Threads : CreateSave(t)
    \/ \E t \in Threads, posted \in BOOLEAN : CreatePost(t, posted)
    \/ \E t \in Threads : CreateStoreTs(t)
    \/ \E t \in Threads, c \in CreatorInputs, multi, hv, hvc \in BOOLEAN,
          d \in DeadlineInputs : ConstructPoll(t, c, multi, hv, hvc, d)
    \/ \E t \in Threads : DropPoll(t)

SpecCreate == Init /\ [][NextCreate]_vars

(* ------------------- the vote table written directly ------------------- *)

\* models.py save_vote called the way its signature states, with a dict.  The
\* option_id column is a foreign key to poll_options.id.
SaveVoteRow(u, o) ==
    /\ nextVote <= MaxVotes
    /\ \E p \in PollIds : polls[p].exists /\ o \in PollOptions(p)
    /\ votes' = save_vote(votes, TRUE, nextVote, u, o).votes
    /\ nextVote' = nextVote + 1
    /\ UNCHANGED <<polls, now, nextId, th, sw, result, message>>

\* models.py delete_vote called the way its signature states, with a vote id.
DeleteVoteRow(id) ==
    /\ \E v \in votes : v.id = id
    /\ votes' = delete_vote(votes, 1, id).votes
    /\ UNCHANGED <<polls, now, nextId, nextVote, th, sw, result, message>>

\* A store that holds one open poll with MaxOptions options and no votes.
InitRows ==
    /\ \E multi \in BOOLEAN :
          polls = [p \in PollIds |->
                     IF p = 1
                     THEN [Poll("u1", multi, FALSE, FALSE, NoDeadline) EXCEPT !.options = MaxOptions]
                     ELSE NoPoll]
    /\ votes = {}
    /\ now = 0
    /\ nextId = 2
    /\ nextVote = 1
    /\ th = [t \in Threads |-> Idle]
    /\ sw = SweeperAsleep
    /\ message = [p \in PollIds |-> InitialMessage(polls[p])]
    /\ result = NoResult

NextRows ==
    \/ \E u \in Users, o \in OptionIds : SaveVoteRow(u, o)
    \/ \E id \in 1..MaxVotes : DeleteVoteRow(id)
    \/ \E t \in Threads, e \in Entries, p \in PollIds, u \in Users, o \in OptionIds :
          VoteBegin(t, e, p, u, o)
    \/ \E t \in Threads : VoteDecide(t)
    \/ \E t \in Threads, e \in Entries, p \in PollIds, u \in Users : CloseBegin(t, e, p, u)
    \/ \E t \in Threads, n \in NotifyInputs : CloseWrite(t, n)
    \/ \E t \in Threads, e \in Entries, p \in PollIds, u \in Users : ShowResults(t, e, p, u)

SpecRows == InitRows /\ [][NextRows]_vars

\* The three vote decisions applied to one request on the same vote table:
\* view holds the vote tables they produce, in the order add_vote,
\* handle_vote, vote_button.
CompareDecisions(p, u, o) ==
    /\ polls[p].exists
    /\ ~polls[p].closed
    /\ o \in PollOptions(p)
    /\ LET multi == polls[p].allow_multiple_votes
       IN result' = [op |-> "decide", poll |-> p, user |-> u, outcome |-> "compared",
                     view |-> <<add_vote(votes, p, multi, u, o, nextVote).votes,
                                VoteDecision(votes, p, multi, u, o, nextVote).votes,
                                vote_button(votes, p, multi, u, o, nextVote).votes>>]
    /\ UNCHANGED <<polls, votes, now, nextId, nextVote, th, sw, message>>

NextDecide ==
    \/ \E u \in Users, o \in OptionIds : SaveVoteRow(u, o)
    \/ \E id \in 1..MaxVotes : DeleteVoteRow(id)
    \/ \E p \in PollIds, u \in Users, o \in OptionIds : CompareDecisions(p, u, o)

SpecDecide == InitRows /\ [][NextDecide]_vars

(* ------------------------- deletion of a poll -------------------------- *)

\* Variant of the deletion without the cascade to the votes.
delete_poll_row_only(ps, vs, poll_id) ==
    IF ps[poll_id].exists
    THEN [polls |-> [ps EXCEPT ![poll_id] = NoPoll], votes |-> vs, returned |-> TRUE]
    ELSE [polls |-> ps, votes |-> vs, returned |-> FALSE]

\* models.py delete_poll: session.delete(poll) of a poll that exists, else
\* False.  Poll.options and PollOption.votes cascade "all, delete-orphan"
\* (models.py:33-35, 99), so the option rows and their vote rows go with it.
delete_poll(ps, vs, poll_id) ==
    IF ps[poll_id].exists
    THEN [polls |-> [ps EXCEPT ![poll_id] = NoPoll],
          votes |-> {v \in vs : v.option_id[1] # poll_id},
          returned |-> TRUE]
    ELSE [polls |-> ps, votes |-> vs, returned |-> FALSE]

DeletePoll(p) ==
    /\ LET d == delete_poll(polls, votes, p)
       IN /\ polls' = d.polls
          /\ votes' = d.votes
          /\ result' = [op |-> "delete", poll |-> p,
                        user |-> "none",
                        outcome |-> IF d.returned THEN "True" ELSE "False", view |-> <<>>]
    /\ UNCHANGED <<now, nextId, nextVote, th, sw, message>>

\* A store that holds one or MaxPolls polls, each with MaxOptions options.
InitDelete ==
    /\ \E multi \in BOOLEAN, n \in {1, MaxPolls} :
          polls = [p \in PollIds |->
                     IF p <= n
                     THEN [Poll("u1", multi, FALSE, FALSE, NoDeadline) EXCEPT !.options = MaxOptions]
                     ELSE NoPoll]
    /\ votes = {}
    /\ now = 0
    /\ nextId = MaxPolls + 1
    /\ nextVote = 1
    /\ th = [t \in Threads |-> Idle]
    /\ sw = SweeperAsleep
    /\ message = [p \in PollIds |-> InitialMessage(polls[p])]
    /\ result = NoResult

NextDelete ==
    \/ \E u \in Users, o \in OptionIds : SaveVoteRow(u, o)
    \/ \E p \in PollIds : DeletePoll(p)

SpecDelete == InitDelete /\ [][NextDelete]_vars

(* --------------------- the results over vote rows ---------------------- *)

\* The hide flags a stored poll can have (hide_vote_count only with hide_votes).
HideInputs == {<<FALSE, FALSE>>, <<TRUE, FALSE>>, <<TRUE, TRUE>>}

\* A store that holds one open poll with ResultOptions options and no votes.
InitResults ==
    /\ \E multi \in BOOLEAN, h \in HideInputs :
          polls = [p \in PollIds |->
                     IF p = 1
                     THEN [Poll("u1", multi, h[1], h[2], NoDeadline) EXCEPT !.options = ResultOptions]
                     ELSE NoPoll]
    /\ votes = {}
    /\ now = 0
    /\ nextId = 2
    /\ nextVote = 1
    /\ th = [t \in Threads |-> Idle]
    /\ sw = SweeperAsleep
    /\ message = [p \in PollIds |-> InitialMessage(polls[p])]
    /\ result = NoResult

NextResults ==
    \/ \E u \in Users, i \in 1..ResultOptions : SaveVoteRow(u, <<1, i>>)
    \/ \E id \in 1..MaxVotes : DeleteVoteRow(id)
    \/ \E t \in Threads, e \in Entries, p \in PollIds, u \in Users : ShowResults(t, e, p, u)

SpecResults == InitResults /\ [][NextResults]_vars

(* ------------------------------ properties ----------------------------- *)

TypeOK ==
    /\ now \in Times
    /\ nextId \in 1..(MaxPolls + 1)
    /\ \A p \in PollIds : polls[p].exists => polls[p].options \in 0..MaxOptions

\* The votes of voter u in poll p, in the vote table vs.
VotesBy(vs, p, u) == {v \in vs : v.user_id = u /\ v.option_id[1] = p}

\* The votes of poll p in the vote table vs.
VotesOf(vs, p) == {v \in vs : v.option_id[1] = p}

\* Thread t ends its vote decision in this step.
DecisionStep(t) == th[t].pc = "vote_decide" /\ th'[t].pc = "idle"

\* A vote request on poll p went through the decision.
VoteDecided(p) ==
    /\ result.op = "vote"
    /\ result.poll = p
    /\ result.outcome \notin {"NotFound", "PollClosed", "OptionNotFound"}

\* C1: in a single-vote poll a voter never holds more than one vote, whatever
\* vote requests were made.
C1_SingleVoteAtMostOne ==
    \A p \in PollIds, u \in Users :
        (polls[p].exists /\ ~polls[p].allow_multiple_votes)
            => Cardinality(VotesBy(votes, p, u)) <= 1

\* C1 witness: a vote request on a single-vote poll went through the decision.
C1_Witness ==
    \E p \in PollIds :
        polls[p].exists /\ ~polls[p].allow_multiple_votes /\ VoteDecided(p)

\* C2: in a multi-vote poll a vote for an option the voter does not hold is
\* added next to the votes the voter holds on other options, and no
\* (voter, option) pair ever has two votes.
C2_MultiVoteHoldsSeveral ==
    /\ [](\A u \in Users, o \in OptionIds :
            Cardinality({v \in votes : v.user_id = u /\ v.option_id = o}) <= 1)
    /\ [][\A t \in Threads :
            LET p == th[t].poll
                u == th[t].user
                o == th[t].option
            IN (/\ DecisionStep(t)
                /\ polls[p].allow_multiple_votes
                /\ o \in PollOptions(p)
                /\ \A v \in VotesBy(votes, p, u) : v.option_id # o)
               => /\ VotesBy(votes, p, u) \subseteq VotesBy(votes', p, u)
                  /\ \E v \in VotesBy(votes', p, u) : v.option_id = o]_vars

\* C3: once a poll is closed its votes never change again.
C3_VotesFrozenAfterClose ==
    [][\A p \in PollIds :
          (polls[p].exists /\ polls[p].closed) => VotesOf(votes', p) = VotesOf(votes, p)]_vars

\* C3 witness: a vote handler has read the poll as open and the poll was
\* closed before the handler reached its decision.
C3_Witness ==
    \E t \in Threads : th[t].pc = "vote_decide" /\ polls[th[t].poll].closed

\* C4: whatever the interleaving of concurrent vote requests, no (voter,
\* option) pair has two votes and no voter has two votes in a single-vote poll.
C4_NoDuplicateVote ==
    \A p \in PollIds, u \in Users :
        polls[p].exists =>
            /\ \A o \in PollOptions(p) :
                  Cardinality({v \in VotesBy(votes, p, u) : v.option_id = o}) <= 1
            /\ ~polls[p].allow_multiple_votes
                  => \A v, w \in VotesBy(votes, p, u) : v = w

\* C4 witness: two vote requests of one voter on one poll are in flight, and a
\* vote request on that poll already went through the decision.
C4_Witness ==
    \E t1, t2 \in Threads :
        /\ t1 # t2
        /\ th[t1].pc = "vote_decide" /\ th[t2].pc = "vote_decide"
        /\ th[t1].poll = th[t2].poll /\ th[t1].user = th[t2].user
        /\ VoteDecided(th[t1].poll)

\* The read-modify-write sequences in progress on poll p: handler threads
\* between their read and their write, and the sweeper (0) while p waits in
\* its snapshot.
InProgress(p) ==
    {t \in Threads : th[t].pc \in {"vote_decide", "close_write"} /\ th[t].poll = p}
        \cup (IF sw.pc = "loop" /\ \E i \in DOMAIN sw.snapshot : sw.snapshot[i] = p
              THEN {0} ELSE {})

\* C5: at no time are two read-modify-write sequences in progress on one poll.
C5_SerializedPerPoll ==
    \A p \in PollIds : Cardinality(InProgress(p)) <= 1

\* C6: the closed flag never goes back from true to false.
C6_ClosedMonotonic ==
    [][\A p \in PollIds :
          (polls[p].exists /\ polls[p].closed) => (polls'[p].exists /\ polls'[p].closed)]_vars

\* C6 witness: the creation handler is about to store message_ts with its
\* second save_poll on a poll that was closed in the meantime.
C6_Witness ==
    \E t \in Threads :
        /\ th[t].pc = "create_ts"
        /\ polls[th[t].poll].closed
        /\ ~GeneratePollBlocksRaises(th[t].poll)

\* C7: toggle law.  A vote by a voter without votes is Added and held; a vote
\* for the one option the voter holds is Removed and leaves the voter without
\* votes.
C7_ToggleLaw ==
    [][\A t \in Threads :
          LET p == th[t].poll
              u == th[t].user
              o == th[t].option
              held == VotesBy(votes, p, u)
          IN (DecisionStep(t) /\ o \in PollOptions(p))
             => /\ held = {}
                   => /\ result'.outcome = "VoteAdded"
                      /\ Cardinality(VotesBy(votes', p, u)) = 1
                      /\ \A v \in VotesBy(votes', p, u) : v.option_id = o
                /\ (Cardinality(held) = 1 /\ \A v \in held : v.option_id = o)
                   => /\ result'.outcome = "VoteRemoved"
                      /\ VotesBy(votes', p, u) = {}]_vars

\* C8: a vote request that finds the poll closed ends with PollClosed and
\* changes neither the polls nor the votes; no vote request on a closed poll
\* gets past the closed check.
C8_ClosedPollRejectsVote ==
    [][\A p \in PollIds :
          (polls[p].exists /\ polls[p].closed)
          => /\ \A t \in Threads :
                   ~(th[t].pc = "idle" /\ th'[t].pc = "vote_decide" /\ th'[t].poll = p)
             /\ (result' # result /\ result'.op = "vote" /\ result'.poll = p /\ th' = th)
                   => /\ result'.outcome = "PollClosed"
                      /\ polls' = polls
                      /\ votes' = votes]_vars

\* C8 witness: a vote request on a closed poll ended with PollClosed.
C8_Witness ==
    /\ result.op = "vote"
    /\ result.outcome = "PollClosed"
    /\ polls[result.poll].closed

\* C9: a vote request whose option is not an option of the poll is turned away
\* before the decision, and every stored vote references an option of its poll.
C9_ForeignOptionRejected ==
    /\ [](\A v \in votes : polls[v.option_id[1]].exists /\ v.option_id \in PollOptions(v.option_id[1]))
    /\ [][\A t \in Threads :
            (th[t].pc = "idle" /\ th'[t].pc = "vote_decide")
               => th'[t].option \in PollOptions(th'[t].poll)]_vars

\* C10: in a single-vote poll a vote for an option other than the one(s) the
\* voter holds removes all the voter's votes, stores exactly one vote for the
\* requested option and reports Replaced.
C10_Replaced ==
    [][\A t \in Threads :
          LET p == th[t].poll
              u == th[t].user
              o == th[t].option
              held == VotesBy(votes, p, u)
          IN (/\ DecisionStep(t)
              /\ ~polls[p].allow_multiple_votes
              /\ o \in PollOptions(p)
              /\ held # {}
              /\ \A v \in held : v.option_id # o)
             => /\ result'.outcome = "Replaced"
                /\ Cardinality(VotesBy(votes', p, u)) = 1
                /\ \A v \in VotesBy(votes', p, u) : v.option_id = o]_vars

\* C11: a close request by a user other than the creator on an open poll ends
\* with Forbidden and leaves the polls unchanged; the only close requests
\* that reach the write of closed, and the only ones that write it, are the
\* creator's.
C11_OnlyCreatorCloses ==
    [][/\ \A t \in Threads :
             (th[t].pc = "idle" /\ th'[t].pc = "close_write")
                => th'[t].user = polls[th'[t].poll].creator_id
       /\ \A t \in Threads :
             (th[t].pc = "close_write" /\ th'[t].pc = "idle")
                => th[t].user = polls[th[t].poll].creator_id
       /\ \A p \in PollIds :
             (/\ polls[p].exists /\ ~polls[p].closed
              /\ result' # result /\ result'.op = "close" /\ result'.poll = p
              /\ th' = th)
                => /\ result'.outcome = "Forbidden"
                   /\ polls' = polls]_vars

\* C11 witness: a close request on an open poll ended with Forbidden.
C11_Witness ==
    /\ result.op = "close"
    /\ result.outcome = "Forbidden"
    /\ polls[result.poll].exists
    /\ ~polls[result.poll].closed

\* C12: no close request on a poll that is already closed gets past the
\* checks to the write of closed; it ends with AlreadyClosed and leaves the
\* polls unchanged.
C12_AlreadyClosedReported ==
    [][\A p \in PollIds :
          (polls[p].exists /\ polls[p].closed)
          => /\ \A t \in Threads :
                   ~(th[t].pc = "idle" /\ th'[t].pc = "close_write" /\ th'[t].poll = p)
             /\ (/\ result' # result /\ result'.op = "close" /\ result'.poll = p
                 /\ th' = th)
                   => /\ result'.outcome = "AlreadyClosed"
                      /\ polls' = polls]_vars

\* C13: no creation with fewer than two non-blank option lines is accepted:
\* none starts to store options, and every finished creation left a poll with
\* at least two options.
C13_InvalidInputRejected ==
    /\ [][\A t \in Threads :
            (th[t].pc = "idle" /\ th'[t].pc = "create_options")
               => th'[t].todo >= 2]_vars
    /\ [](result.op = "create" => polls[result.poll].options >= 2)

ResultsStep == result' # result /\ result'.op = "results" /\ result'.outcome = "Results"

\* A results view is held for a poll.
HasView == result.op = "results" /\ result.outcome = "Results"

\* C15: the list a results request returns has one entry per option of the
\* poll, each with the number of votes of its option, in descending order of
\* count with ties in option-definition order.
C15_StableDescendingSort ==
    [][ResultsStep =>
          LET p == result'.poll
              view == result'.view
          IN /\ Len(view) = polls[p].options
             /\ {view[i].id : i \in DOMAIN view} = 1..polls[p].options
             /\ \A i \in DOMAIN view :
                   view[i].count = Cardinality({v \in votes : v.option_id = <<p, view[i].id>>})
             /\ \A i, j \in DOMAIN view :
                   i < j => \/ view[i].count > view[j].count
                            \/ view[i].count = view[j].count /\ view[i].id < view[j].id]_vars

\* C15 witness: a view in the order [B, A, C] for options defined [A, B, C],
\* B with more votes than A and A with as many as C.
C15_Witness ==
    /\ HasView
    /\ Len(result.view) = 3
    /\ <<result.view[1].id, result.view[2].id, result.view[3].id>> = <<2, 1, 3>>
    /\ result.view[1].count > result.view[2].count
    /\ result.view[2].count = result.view[3].count

\* C16: the view of a poll with hide_vote_count carries no count.
C16_CountHidden ==
    (HasView /\ polls[result.poll].hide_vote_count)
        => \A i \in DOMAIN result.view : ~result.view[i].has_count

ExpiredOpen(p) ==
    /\ polls[p].exists
    /\ ~polls[p].closed
    /\ polls[p].deadline # NoDeadline
    /\ polls[p].deadline < now

\* Under fair scheduling of the sweeper every open poll whose deadline has
\* passed is eventually closed.
ExpiredEventuallyClosed ==
    \A p \in PollIds : ExpiredOpen(p) ~> polls[p].closed

\* C18: the sweeper's query returns every open poll whose deadline has
\* passed, and when the tick ends every poll the query returned is closed.
C18_ExpiredClosedWithinTick ==
    /\ [][(sw.pc = "sleep" /\ sw'.pc = "loop")
            => sw'.taken = {p \in PollIds : ExpiredOpen(p)}]_vars
    /\ [][(sw.pc = "loop" /\ sw'.pc = "sleep")
            => \A p \in sw.taken : polls[p].closed]_vars

\* The sweeper closes poll p in this step.
SweeperCloses(p) ==
    /\ sw.pc = "loop"
    /\ sw.snapshot # <<>>
    /\ Head(sw.snapshot) = p
    /\ sw' # sw

\* C19: the sweeper only closes polls whose deadline has passed; a poll
\* without deadline or with a deadline not yet passed goes from open to closed
\* only in the write of a creator's close request.
C19_SweeperLeavesUnexpired ==
    [][\A p \in PollIds :
          LET unexpired == polls[p].exists
                             /\ (polls[p].deadline = NoDeadline \/ polls[p].deadline >= now)
          IN /\ SweeperCloses(p) => ~unexpired
             /\ (unexpired /\ ~polls[p].closed /\ polls'[p].closed)
                   => \E t \in Threads :
                         /\ th[t].pc = "close_write" /\ th'[t].pc = "idle"
                         /\ th[t].poll = p
                         /\ th[t].user = polls[p].creator_id]_vars

\* C19 witness: the sweeper has taken its snapshot and left out an open poll
\* that has no deadline or whose deadline has not passed.
C19_Witness ==
    /\ sw.pc = "loop"
    /\ \E p \in PollIds :
          /\ polls[p].exists /\ ~polls[p].closed
          /\ polls[p].deadline = NoDeadline \/ polls[p].deadline >= now
          /\ p \notin sw.taken
    /\ now > 0

\* C20: whatever the outcome of a poll's notification, the sweeper's loop
\* goes on with the rest of the snapshot.
C20_NotifyFailureIsolated ==
    [][(sw.pc = "loop" /\ sw'.pc = "loop" /\ sw' # sw)
          => sw'.snapshot = Tail(sw.snapshot)]_vars

\* C21: with ticks that fail at the query or at a save, the sweeper keeps
\* running: it is asleep between two ticks again and again, and every open
\* poll whose deadline has passed, one left open by a failed tick included,
\* is eventually closed.
C21_SweeperSurvivesFailedTick ==
    /\ []<>(sw.pc = "sleep")
    /\ \A p \in PollIds : ExpiredOpen(p) ~> polls[p].closed

\* C21 witness: a tick has failed and left open a poll whose deadline has
\* passed.
C21_Witness ==
    /\ sw.pc = "failed"
    /\ \E p \in sw.taken : ExpiredOpen(p)

\* The outcomes of a close request whose re-render of the message failed
\* after save_poll.
NotifyFailureOutcomes == {"NotifyFailed", "AttributeError", "Exception"}

\* C22: when the re-render or notification fails after a close was saved, the
\* store is the one the save left: the poll is closed and nothing else has
\* changed, for a close request and for the sweeper alike.
C22_MutationSurvivesNotifyFailure ==
    [][/\ \A t \in Threads :
             (/\ th[t].pc = "close_write" /\ th'[t].pc = "idle"
              /\ result'.outcome \in NotifyFailureOutcomes)
                => polls' = [polls EXCEPT ![th[t].poll].closed = TRUE]
       /\ \A p \in PollIds :
             (p \in sw'.failures /\ p \notin sw.failures)
                => polls' = [polls EXCEPT ![p].closed = TRUE]]_vars

\* C22 witness: a close request ended with a failed re-render, and the
\* sweeper's notification of a poll failed.
C22_Witness ==
    /\ result.op = "close"
    /\ result.outcome \in NotifyFailureOutcomes
    /\ sw.failures # {}

\* C23: in a multi-vote poll a vote request for option o toggles the voter's
\* vote on o (added if absent, removed if present) and leaves the voter's
\* votes on every other option as they were.
C23_MultiVoteFrame ==
    [][\A t \in Threads :
          LET p == th[t].poll
              u == th[t].user
              o == th[t].option
              on_o(vs) == {v \in VotesBy(vs, p, u) : v.option_id = o}
              elsewhere(vs) == {v \in VotesBy(vs, p, u) : v.option_id # o}
          IN (/\ DecisionStep(t)
              /\ polls[p].allow_multiple_votes
              /\ o \in PollOptions(p))
             => /\ elsewhere(votes') = elsewhere(votes)
                /\ (on_o(votes) = {}) => Cardinality(on_o(votes')) = 1
                /\ (on_o(votes) # {}) => on_o(votes') = {}]_vars

\* C24: deleting a poll that exists returns true and removes the poll with
\* its options and every vote on them, other polls and their votes staying as
\* they were; deleting an absent poll returns false and changes nothing.
C24_DeleteCascades ==
    [][\A p \in PollIds :
          (result' # result /\ result'.op = "delete" /\ result'.poll = p)
          => IF polls[p].exists
             THEN /\ result'.outcome = "True"
                  /\ ~polls'[p].exists
                  /\ VotesOf(votes', p) = {}
                  /\ \A q \in PollIds \ {p} :
                        polls'[q] = polls[q] /\ VotesOf(votes', q) = VotesOf(votes, q)
             ELSE /\ result'.outcome = "False"
                  /\ polls' = polls
                  /\ votes' = votes]_vars

\* C24 witness: a poll that had votes was deleted while another poll keeps
\* its votes.
C24_Witness ==
    /\ result.op = "delete"
    /\ result.outcome = "True"
    /\ ~polls[result.poll].exists
    /\ Cardinality(votes) < nextVote - 1
    /\ \E q \in PollIds : polls[q].exists /\ VotesOf(votes, q) # {}

\* A close request on poll p ends in this step without reaching the write.
CloseTurnedAway(p) ==
    /\ result' # result
    /\ result'.op = "close"
    /\ result'.poll = p
    /\ th' = th

\* C25: a close request is answered NotFound for an unknown poll whoever asks,
\* and a close request that is turned away from a closed poll is answered
\* AlreadyClosed, never Forbidden.
C25_CloseFailureOrder ==
    [][\A p \in PollIds :
          CloseTurnedAway(p)
          => /\ ~polls[p].exists => result'.outcome = "NotFound"
             /\ (polls[p].exists /\ polls[p].closed) => result'.outcome # "Forbidden"]_vars

\* Open poll p has a deadline.
OpenWithDeadline(p) ==
    polls[p].exists /\ ~polls[p].closed /\ polls[p].deadline # NoDeadline

\* The sweeper takes its snapshot in this step.
QueryStep == sw.pc = "sleep" /\ sw'.pc = "loop"

C27_EveryCloseNotified ==
    /\ [][\A p \in PollIds : SweeperCloses(p) => (polls'[p].closed /\ p \in sw'.notified)]_vars
    /\ [](\A p \in sw.notified : polls[p].closed)

\* C27 as amended: the sweeper stores the close of a poll and then attempts
\* the notification exactly when the poll has a message reference; every poll
\* it has attempted to notify about is stored as closed.
C27_CloseThenNotifyIfPosted ==
    /\ [][\A p \in PollIds :
            SweeperCloses(p) => /\ polls'[p].closed
                                /\ p \in sw'.notified <=> polls[p].message_ts]_vars
    /\ [](\A p \in sw.notified : polls[p].closed /\ polls[p].message_ts)

\* C27 witness: in one tick the sweeper has closed a poll and attempted its
\* notification.
C27_Witness ==
    /\ sw.pc = "loop"
    /\ \E p \in sw.notified : polls[p].closed

\* C28: every close the sweeper performs is on a poll that is open at that
\* moment.
C28_SweeperClosesOnlyOpen ==
    [][\A p \in PollIds : SweeperCloses(p) => ~polls[p].closed]_vars

\* C29: when a tick ends, the polls it has closed are exactly the polls its
\* query returned, and the sweeper closes no poll outside that snapshot.
C29_TickProcessesSnapshot ==
    /\ [][\A p \in PollIds : SweeperCloses(p) => p \in sw.taken]_vars
    /\ [][(sw.pc = "loop" /\ sw'.pc = "sleep") => sw.done = sw.taken]_vars

\* C30: a vote, close or results request for a poll that is not in the store
\* ends with the not-found outcome and leaves polls and votes as they were.
C30_MissingPollReported ==
    [][\A p \in PollIds :
          (/\ ~polls[p].exists
           /\ result' # result
           /\ result'.op \in {"vote", "close", "results"}
           /\ result'.poll = p)
          => /\ result'.outcome = "NotFound"
             /\ polls' = polls
             /\ votes' = votes]_vars

\* C30 witness: a request for a poll that is not in the store ended with
\* NotFound while the store holds a poll with votes.
C30_Witness ==
    /\ result.outcome = "NotFound"
    /\ result.op = "results"
    /\ ~polls[result.poll].exists
    /\ votes # {}

\* True of a step in which thread t runs Poll.add_option for poll p.
AddsOption(t, p) ==
    /\ th[t].pc = "create_options"
    /\ th[t].poll = p
    /\ th[t].todo > 0
    /\ th'[t].todo = th[t].todo - 1

\* C31: the options of a stored poll never change after creation: the only
\* step that changes them is an add_option of the creating request, which
\* appends one option; no vote, close or sweeper step adds or removes one.
C31_OptionsImmutable ==
    [][\A p \in PollIds :
          (polls[p].exists /\ polls'[p].options # polls[p].options)
          => /\ polls'[p].exists
             /\ polls'[p].options = polls[p].options + 1
             /\ \E t \in Threads : AddsOption(t, p)]_vars

\* C31 witness: a vote request has ended on a closed poll that still has its
\* two options.
C31_Witness ==
    /\ result.op = "vote"
    /\ polls[result.poll].exists
    /\ polls[result.poll].closed
    /\ polls[result.poll].options >= 2

\* C32: in a single-vote poll every vote decision, from whatever votes the
\* voter holds before it, leaves the voter with at most one vote.
C32_SingleVoteReestablished ==
    [][\A t \in Threads :
          LET p == th[t].poll
              u == th[t].user
          IN (/\ DecisionStep(t)
              /\ ~polls[p].allow_multiple_votes
              /\ th[t].option \in PollOptions(p))
             => Cardinality(VotesBy(votes', p, u)) <= 1]_vars

\* C33: a vote decision of voter u leaves every vote of every other voter as
\* it was, in single-vote and multi-vote polls alike.
C33_OtherVotersUntouched ==
    [][\A t \in Threads :
          DecisionStep(t)
          => {v \in votes' : v.user_id # th[t].user} = {v \in votes : v.user_id # th[t].user}]_vars

\* C33 witness: a vote request went through the decision on a poll in which
\* both voters hold a vote.
C33_Witness ==
    /\ VoteDecided(1)
    /\ \A u \in Users : VotesBy(votes, 1, u) # {}

\* C34: for every open poll, vote table and vote request on an option of the
\* poll, PollService.add_vote, handle_vote and the vote_button branch of
\* slack_events produce the same vote table.
C34_DecisionsAgree ==
    result.op = "decide"
    => /\ result.view[1] = result.view[2]
       /\ result.view[2] = result.view[3]

\* C34 witness: the three decisions were applied to a vote table that holds
\* two votes.
C34_Witness ==
    /\ result.op = "decide"
    /\ Cardinality(votes) >= 2

C37_SweptAtMostOnce ==
    [][/\ \A p \in PollIds : message'[p].sweeps <= 1
       /\ QueryStep => \A p \in sw'.taken : ~polls[p].closed]_vars

\* C37 witness: a later tick has taken its snapshot without the poll that an
\* earlier tick closed and whose notification failed.
C37_Witness ==
    /\ sw.pc = "loop"
    /\ \E p \in PollIds :
          /\ p \notin sw.taken
          /\ polls[p].exists
          /\ polls[p].closed
          /\ message[p].sweeps = 1
          /\ message[p].failed

\* No handler and no sweeper tick is in flight.
Quiescent ==
    /\ \A t \in Threads : th[t].pc = "idle"
    /\ sw.pc = "sleep"

\* C36: once every handler and every sweeper tick has finished and no
\* notification has failed, the last rendering sent for a poll's message
\* shows the poll as the store holds it: closed when the stored poll is
\* closed, open when it is open.
C36_DisplayConsistent ==
    (Quiescent /\ \A q \in PollIds : ~message[q].failed)
    => \A p \in PollIds :
          (polls[p].exists /\ message[p].shown # "none")
          => message[p].shown = Rendering(polls[p])

====
